---- MODULE Spec2Model ----
(***************************************************************************)
(* Model of the workflow orchestrator: the graph model (WorkflowDAG), the  *)
(* static extractor (parse_workflow_code) and the plan validation loop     *)
(* (build_and_validate_workflow_plan).                                     *)
(*                                                                         *)
(* Python values are represented as follows.                               *)
(*   - A dict is a sequence of entries in insertion order (Python dicts    *)
(*     iterate in insertion order); WorkflowDAG.nodes is the sequence of   *)
(*     WorkflowNode records, keyed by their name field.                    *)
(*   - A set of strings is a duplicate-free sequence: the members in the   *)
(*     order the set iterates them.  The order is not fixed by the         *)
(*     language, so the place a new member takes is chosen                 *)
(*     nondeterministically when it is added; an unmodified set keeps its  *)
(*     order.                                                              *)
(*   - An exception is a record [type, msg]; NoException means the call    *)
(*     returned normally.                                                  *)
(***************************************************************************)
EXTENDS Integers, Sequences, FiniteSets, TLC

VARIABLES
    nodes,          \* WorkflowDAG.nodes : Dict[str, WorkflowNode]
    edges,          \* WorkflowDAG.edges : Dict[str, Set[str]]
    last,           \* the last call made on the graph and what it gave back
    pc,             \* build_and_validate_workflow_plan: "idle", "loop", "done"
    max_attempts,   \* its max_attempts argument
    attempt,        \* its local attempt
    plan,           \* its local plan : PlannedWorkflow
    result,         \* its local result : WorkflowPlanResult
    calls,          \* the calls made to the orchestrator, oldest first
    attempts,       \* what validate_workflow_plan returned, oldest first
    steps,          \* what validate_workflow_plan ran on each attempt, oldest first
    source_text,    \* parse_workflow_code: the source text it is called on
    extracted       \* what the call gave back: <<>> before it, <<[raised, dag]>> after

dagvars == <<nodes, edges, last>>

loopvars == <<pc, max_attempts, attempt, plan, result, calls, attempts, steps>>

parsevars == <<source_text, extracted>>

vars == <<nodes, edges, last, pc, max_attempts, attempt, plan, result, calls, attempts,
          steps, source_text, extracted>>

(***************************************************************************)
(* Bounds of the model.                                                    *)
(***************************************************************************)
MaxEdges == 3       \* edges a graph may hold
MaxAttempts == 3    \* largest max_attempts a session is started with
MaxStmts == 4       \* builder calls in a source text handed to the extractor

\* the node names the callers use
Names == {"a", "b", "c"}

(***************************************************************************)
(* Python values.                                                          *)
(***************************************************************************)
Range(s) == {s[i] : i \in 1..Len(s)}

NoException == [type |-> "", msg |-> ""]

ValueError(m) == [type |-> "ValueError", msg |-> m]

KeyError(m) == [type |-> "KeyError", msg |-> m]

EmptyParams == <<>>

\* WorkflowNode(name, action, params): the dataclass of workflow.py
WorkflowNode(name, action, params) ==
    [name |-> name, action |-> action, params |-> params]

\* repr(v): a str is quoted, any other value reads as str(v)
PyRepr(v) == IF v.t = "str" THEN "'" \o v.s \o "'" ELSE v.s

\* sep.join(lines)
RECURSIVE Join(_, _)
Join(lines, sep) ==
    IF lines = <<>> THEN ""
    ELSE IF Len(lines) = 1 THEN lines[1]
    ELSE lines[1] \o sep \o Join(Tail(lines), sep)

\* WorkflowNode.describe(): the action applied to key=repr(value), the
\* params in the order the dict holds them
describe(node) ==
    node.action \o "("
        \o Join([i \in 1..Len(node.params) |->
                    node.params[i][1].s \o "=" \o PyRepr(node.params[i][2])], ", ")
        \o ")"

\* the keys of the dict self.nodes
Keys(ns) == {ns[i].name : i \in 1..Len(ns)}

\* self.nodes[name]
Lookup(ns, name) == ns[CHOOSE i \in 1..Len(ns) : ns[i].name = name]

\* s.add(x) on a set: no change if x is a member, else x takes place `slot`
\* of the iteration order
SetAdd(s, x, slot) ==
    IF x \in Range(s) THEN s
    ELSE [i \in 1..(Len(s) + 1) |->
            IF i < slot THEN s[i] ELSE IF i = slot THEN x ELSE s[i - 1]]

Reversed(s) == [i \in 1..Len(s) |-> s[Len(s) + 1 - i]]

(***************************************************************************)
(* WorkflowDAG.  A graph value d is [nodes |-> ..., edges |-> ...]; every   *)
(* method gives back the graph after the call and the exception raised.    *)
(***************************************************************************)
NewDAG == [nodes |-> <<>>, edges |-> <<>>]

\* mutant of add_node: a duplicate name replaces the stored node and resets
\* its successor set instead of being rejected
add_node_overwrite(d, node) ==
    [nodes  |-> IF node.name \in Keys(d.nodes)
                THEN [i \in 1..Len(d.nodes) |->
                        IF d.nodes[i].name = node.name THEN node ELSE d.nodes[i]]
                ELSE Append(d.nodes, node),
     edges  |-> [k \in (DOMAIN d.edges) \cup {node.name} |->
                    IF k = node.name THEN <<>> ELSE d.edges[k]],
     raised |-> NoException]

add_node(d, node) ==
    IF node.name \in Keys(d.nodes)
    THEN [nodes  |-> d.nodes, edges |-> d.edges,
          raised |-> ValueError("Node with name '" \o node.name \o "' already exists")]
    ELSE [nodes  |-> Append(d.nodes, node),
          edges  |-> [k \in (DOMAIN d.edges) \cup {node.name} |->
                        IF k = node.name THEN <<>> ELSE d.edges[k]],
          raised |-> NoException]

\* mutant of add_edge: the guard joins its two tests with `and`, so that
\* one known endpoint is enough to get past it; self.edges[source] then
\* raises KeyError for an unknown source
add_edge_and(d, source, target, slot) ==
    IF source \notin Keys(d.nodes) /\ target \notin Keys(d.nodes)
    THEN [nodes  |-> d.nodes, edges |-> d.edges,
          raised |-> KeyError("Both source and target must be added before connecting")]
    ELSE IF source \notin DOMAIN d.edges
    THEN [nodes  |-> d.nodes, edges |-> d.edges, raised |-> KeyError(source)]
    ELSE [nodes  |-> d.nodes,
          edges  |-> [d.edges EXCEPT ![source] = SetAdd(@, target, 1)],
          raised |-> NoException]

\* mutant of add_edge: the successors are kept in a list, so that adding
\* an edge again appends it again
add_edge_list(d, source, target, slot) ==
    IF source \notin Keys(d.nodes) \/ target \notin Keys(d.nodes)
    THEN [nodes  |-> d.nodes, edges |-> d.edges,
          raised |-> KeyError("Both source and target must be added before connecting")]
    ELSE [nodes  |-> d.nodes,
          edges  |-> [d.edges EXCEPT ![source] = Append(@, target)],
          raised |-> NoException]

\* mutant of add_edge: only the source is looked up before the edge is
\* stored
add_edge_source_only(d, source, target, slot) ==
    IF source \notin Keys(d.nodes)
    THEN [nodes  |-> d.nodes, edges |-> d.edges,
          raised |-> KeyError("Both source and target must be added before connecting")]
    ELSE [nodes  |-> d.nodes,
          edges  |-> [d.edges EXCEPT ![source] = SetAdd(@, target, 1)],
          raised |-> NoException]

\* mutant of add_edge: an edge from a node to itself is refused as a cycle
add_edge_no_self_loop(d, source, target, slot) ==
    IF source \notin Keys(d.nodes) \/ target \notin Keys(d.nodes)
    THEN [nodes  |-> d.nodes, edges |-> d.edges,
          raised |-> KeyError("Both source and target must be added before connecting")]
    ELSE IF source = target
    THEN [nodes  |-> d.nodes, edges |-> d.edges,
          raised |-> ValueError("Cycle detected in workflow")]
    ELSE [nodes  |-> d.nodes,
          edges  |-> [d.edges EXCEPT ![source] = SetAdd(@, target, slot)],
          raised |-> NoException]

add_edge(d, source, target, slot) ==
    IF source \notin Keys(d.nodes) \/ target \notin Keys(d.nodes)
    THEN [nodes  |-> d.nodes, edges |-> d.edges,
          raised |-> KeyError("Both source and target must be added before connecting")]
    ELSE [nodes  |-> d.nodes,
          edges  |-> [d.edges EXCEPT ![source] = SetAdd(@, target, slot)],
          raised |-> NoException]

RECURSIVE visit(_, _, _), visit_neighbors(_, _, _, _), visit_all(_, _, _)

\* The closure visit(node_name) of topological_order.  st holds the
\* variables it closes over, [visited, temp, order], and raised, the
\* exception that is unwinding the recursion.  E is self.edges.
visit(st, E, node_name) ==
    IF st.raised # NoException THEN st
    ELSE IF node_name \in st.temp
    THEN [st EXCEPT !.raised = ValueError("Cycle detected in workflow")]
    ELSE IF node_name \in st.visited THEN st
    ELSE IF node_name \notin DOMAIN E
    THEN [st EXCEPT !.temp = @ \cup {node_name},
                    !.raised = KeyError(node_name)]
    ELSE LET entered == [st EXCEPT !.temp = @ \cup {node_name}]
             after   == visit_neighbors(entered, E, E[node_name], 1)
         IN  IF after.raised # NoException THEN after
             ELSE [after EXCEPT !.temp    = @ \ {node_name},
                                !.visited = @ \cup {node_name},
                                !.order   = Append(@, node_name)]

\* for neighbor in self.edges[node_name]: visit(neighbor)
visit_neighbors(st, E, succ, i) ==
    IF i > Len(succ) \/ st.raised # NoException THEN st
    ELSE visit_neighbors(visit(st, E, succ[i]), E, succ, i + 1)

\* for name in self.nodes: if name not in visited: visit(name)
visit_all(st, d, i) ==
    IF i > Len(d.nodes) \/ st.raised # NoException THEN st
    ELSE visit_all(IF d.nodes[i].name \notin st.visited
                   THEN visit(st, d.edges, d.nodes[i].name)
                   ELSE st,
                   d, i + 1)

TraversalStart ==
    [visited |-> {}, temp |-> {}, order |-> <<>>, raised |-> NoException]

\* return [self.nodes[name] for name in order]: a name that is no key of
\* self.nodes raises KeyError
nodes_of(d, order) ==
    IF \E i \in 1..Len(order) : order[i] \notin Keys(d.nodes)
    THEN [raised |-> KeyError(order[CHOOSE i \in 1..Len(order) :
                                        /\ order[i] \notin Keys(d.nodes)
                                        /\ \A j \in 1..(i - 1) : order[j] \in Keys(d.nodes)]),
          ret    |-> <<>>]
    ELSE [raised |-> NoException,
          ret    |-> [i \in 1..Len(order) |-> Lookup(d.nodes, order[i])]]

\* mutant of topological_order: the finishing order is returned as it is,
\* without the reversal
topological_order_unreversed(d) ==
    LET st == visit_all(TraversalStart, d, 1)
    IN  IF st.raised # NoException
        THEN [raised |-> st.raised, ret |-> <<>>]
        ELSE nodes_of(d, st.order)

\* mutant of topological_order: the cycle error is swallowed and the nodes
\* finished so far are returned
topological_order_partial(d) ==
    LET st == visit_all(TraversalStart, d, 1)
    IN  nodes_of(d, Reversed(st.order))

topological_order(d) ==
    LET st == visit_all(TraversalStart, d, 1)
    IN  IF st.raised # NoException
        THEN [raised |-> st.raised, ret |-> <<>>]
        ELSE nodes_of(d, Reversed(st.order))

(***************************************************************************)
(* execute(runner).  The runner is the caller's callable: it is given by   *)
(* the set of node names on which it raises; on every other node it        *)
(* returns a value that names the node.                                    *)
(***************************************************************************)
RunnerError(name) == [type |-> "RunnerError", msg |-> name]

RunnerValue(node) == "ran " \o node.name

Runner(fails) == [fails |-> fails]

RECURSIVE run_nodes(_, _, _, _), run_nodes_continue(_, _, _, _)

\* for node in order: results.append(runner(node))
run_nodes(acc, order, runner, i) ==
    IF i > Len(order) \/ acc.raised # NoException THEN acc
    ELSE run_nodes(
            IF order[i].name \in runner.fails
            THEN [acc EXCEPT !.invoked = Append(@, order[i].name),
                             !.raised  = RunnerError(order[i].name)]
            ELSE [acc EXCEPT !.invoked = Append(@, order[i].name),
                             !.results = Append(@, RunnerValue(order[i]))],
            order, runner, i + 1)

\* the loop with the runner's failure caught: the failing node is skipped
\* and the loop goes on
run_nodes_continue(acc, order, runner, i) ==
    IF i > Len(order) THEN acc
    ELSE run_nodes_continue(
            IF order[i].name \in runner.fails
            THEN [acc EXCEPT !.invoked = Append(@, order[i].name)]
            ELSE [acc EXCEPT !.invoked = Append(@, order[i].name),
                             !.results = Append(@, RunnerValue(order[i]))],
            order, runner, i + 1)

RunStart == [results |-> <<>>, invoked |-> <<>>, raised |-> NoException]

\* mutant of execute: the nodes are run in insertion order (self.nodes)
\* instead of in topological order
execute_insertion_order(d, runner) ==
    LET t == topological_order(d)
    IN  IF t.raised # NoException
        THEN [raised |-> t.raised, ret |-> <<>>, invoked |-> <<>>]
        ELSE LET acc == run_nodes(RunStart, d.nodes, runner, 1)
             IN  [raised  |-> acc.raised,
                  ret     |-> IF acc.raised # NoException THEN <<>> ELSE acc.results,
                  invoked |-> acc.invoked]

\* mutant of execute: a failing runner is caught and the remaining nodes
\* are still run
execute_continue(d, runner) ==
    LET t == topological_order(d)
    IN  IF t.raised # NoException
        THEN [raised |-> t.raised, ret |-> <<>>, invoked |-> <<>>]
        ELSE LET acc == run_nodes_continue(RunStart, t.ret, runner, 1)
             IN  [raised  |-> NoException,
                  ret     |-> acc.results,
                  invoked |-> acc.invoked]

execute(d, runner) ==
    LET t == topological_order(d)
    IN  IF t.raised # NoException
        THEN [raised |-> t.raised, ret |-> <<>>, invoked |-> <<>>]
        ELSE LET acc == run_nodes(RunStart, t.ret, runner, 1)
             IN  [raised  |-> acc.raised,
                  ret     |-> IF acc.raised # NoException THEN <<>> ELSE acc.results,
                  invoked |-> acc.invoked]

\* the lines of to_dot for the edges that leave the nodes ns[i..]:
\* self.edges holds its keys in the order add_node stored them
RECURSIVE edge_lines(_, _, _)
edge_lines(ns, E, i) ==
    IF i > Len(ns) THEN <<>>
    ELSE [j \in 1..Len(E[ns[i].name]) |->
            "    \"" \o ns[i].name \o "\" -> \"" \o E[ns[i].name][j] \o "\";"]
         \o edge_lines(ns, E, i + 1)

to_dot_lines(d) ==
    <<"digraph workflow {">>
        \o [i \in 1..Len(d.nodes) |->
                "    \"" \o d.nodes[i].name \o "\" [label=\""
                    \o describe(d.nodes[i]) \o "\"];"]
        \o edge_lines(d.nodes, d.edges, 1)
        \o <<"}">>

\* mutant of to_dot: the successors are popped off their set as their
\* lines are written
to_dot_drains(d) ==
    [nodes  |-> d.nodes,
     edges  |-> [k \in DOMAIN d.edges |-> <<>>],
     raised |-> NoException,
     ret    |-> Join(to_dot_lines(d), "\n")]

\* to_dot(): the graph after the call and the text returned
to_dot(d) ==
    [nodes  |-> d.nodes,
     edges  |-> d.edges,
     raised |-> NoException,
     ret    |-> Join(to_dot_lines(d), "\n")]

(***************************************************************************)
(* The graph as a state machine: one action per method call.               *)
(***************************************************************************)
Self == [nodes |-> nodes, edges |-> edges]

EdgeCount(E) ==
    LET RECURSIVE sum(_)
        sum(S) == IF S = {} THEN 0
                  ELSE LET k == CHOOSE x \in S : TRUE
                       IN  Len(E[k]) + sum(S \ {k})
    IN  sum(DOMAIN E)

\* the nodes a caller hands to add_node: every name with the action
\* defaulted to the name, and one name with another action as well
NodeInputs ==
    {WorkflowNode(n, n, EmptyParams) : n \in Names}
        \cup {WorkflowNode("a", "send_email", EmptyParams)}

Call(op, arg, fails, r, newNodes, newEdges) ==
    [op      |-> op,
     arg     |-> arg,
     fails   |-> fails,
     raised  |-> r.raised,
     ret     |-> r.ret,
     invoked |-> r.invoked,
     changed |-> (newNodes # nodes \/ newEdges # edges)]

NoResult(raised) == [raised |-> raised, ret |-> <<>>, invoked |-> <<>>]

InitDag ==
    /\ nodes = NewDAG.nodes
    /\ edges = NewDAG.edges
    /\ last = [op |-> "__init__", arg |-> <<>>, fails |-> {},
               raised |-> NoException, ret |-> <<>>, invoked |-> <<>>,
               changed |-> FALSE]

AddNode ==
    \E node \in NodeInputs :
        LET r == add_node(Self, node)
        IN  /\ nodes' = r.nodes
            /\ edges' = r.edges
            /\ last' = Call("add_node", <<node.name, node.action>>, {},
                            NoResult(r.raised), r.nodes, r.edges)
            /\ UNCHANGED <<loopvars, parsevars>>

\* the places the hash table can give a new member of source's successor set
Slots(source, target) ==
    IF source \in DOMAIN edges /\ target \in Keys(nodes)
          /\ target \notin Range(edges[source])
    THEN 1..(Len(edges[source]) + 1)
    ELSE {1}

AddEdge ==
    \E source \in Names, target \in Names :
        \E slot \in Slots(source, target) :
            LET r == add_edge(Self, source, target, slot)
            IN  /\ EdgeCount(r.edges) <= MaxEdges
                /\ nodes' = r.nodes
                /\ edges' = r.edges
                /\ last' = Call("add_edge", <<source, target>>, {},
                                NoResult(r.raised), r.nodes, r.edges)
                /\ UNCHANGED <<loopvars, parsevars>>

TopologicalOrder ==
    LET r == topological_order(Self)
    IN  /\ last' = Call("topological_order", <<>>, {},
                        [raised |-> r.raised, ret |-> r.ret, invoked |-> <<>>],
                        nodes, edges)
        /\ UNCHANGED <<nodes, edges>>
        /\ UNCHANGED <<loopvars, parsevars>>

Execute ==
    \E fails \in SUBSET Names :
        LET r == execute(Self, Runner(fails))
        IN  /\ last' = Call("execute", <<>>, fails, r, nodes, edges)
            /\ UNCHANGED <<nodes, edges>>
            /\ UNCHANGED <<loopvars, parsevars>>

ToDot ==
    LET r == to_dot(Self)
    IN  /\ nodes' = r.nodes
        /\ edges' = r.edges
        /\ last' = Call("to_dot", <<>>, {},
                        [raised |-> r.raised, ret |-> <<r.ret>>, invoked |-> <<>>],
                        r.nodes, r.edges)
        /\ UNCHANGED <<loopvars, parsevars>>

NextDag == AddNode \/ AddEdge \/ TopologicalOrder \/ Execute \/ ToDot

(***************************************************************************)
(* Python values the extractor computes with: [t, s, items], t the type,   *)
(* s what str() gives, items the entries of a dict (pairs <<key, value>>   *)
(* in insertion order).                                                    *)
(***************************************************************************)
PyStr(text) == [t |-> "str", s |-> text, items |-> <<>>]

PyNone == [t |-> "NoneType", s |-> "None", items |-> <<>>]

\* an int, given by its decimal digits
PyInt(digits) == [t |-> "int", s |-> digits, items |-> <<>>]

RECURSIVE DictStr(_, _)
DictStr(items, i) ==
    IF i > Len(items) THEN ""
    ELSE PyRepr(items[i][1]) \o ": " \o PyRepr(items[i][2])
            \o (IF i < Len(items) THEN ", " ELSE "") \o DictStr(items, i + 1)

PyDict(items) == [t |-> "dict", s |-> "{" \o DictStr(items, 1) \o "}", items |-> items]

\* d[key] = value on a dict: a held key keeps its place
DictSet(items, key, value) ==
    IF \E i \in 1..Len(items) : items[i][1] = key
    THEN [i \in 1..Len(items) |->
            IF items[i][1] = key THEN <<key, value>> ELSE items[i]]
    ELSE Append(items, <<key, value>>)

(***************************************************************************)
(* The syntax tree ast.parse gives: the node classes the extractor tells   *)
(* apart.  Every other expression or statement class is one of BinOp,      *)
(* ImportFrom: the extractor treats them all alike.                        *)
(***************************************************************************)
Constant(v) == [tag |-> "Constant", value |-> v]

Name(id) == [tag |-> "Name", id |-> id]

Attribute(value, attr) == [tag |-> "Attribute", value |-> value, attr |-> attr]

CallExpr(func, args, keywords) ==
    [tag |-> "Call", func |-> func, args |-> args, keywords |-> keywords]

Keyword(arg, value) == [arg |-> arg, value |-> value]

DictExpr(keys, values) == [tag |-> "Dict", keys |-> keys, values |-> values]

BinOp == [tag |-> "BinOp"]

Assign(targets, value) == [tag |-> "Assign", targets |-> targets, value |-> value]

ExprStmt(value) == [tag |-> "Expr", value |-> value]

ImportFrom == [tag |-> "ImportFrom"]

\* ast.literal_eval(node): [raised, value]
RECURSIVE literal_eval(_), literal_eval_items(_, _, _)
\* mutant of literal_eval: the expression is handed to eval(), which runs a
\* call and gives back what it returns
literal_eval_runs_calls(node) ==
    IF node.tag = "Constant" THEN [raised |-> FALSE, value |-> node.value]
    ELSE IF node.tag = "Call" THEN [raised |-> FALSE, value |-> PyStr("returned")]
    ELSE IF node.tag = "Dict" /\ Len(node.keys) = Len(node.values)
    THEN literal_eval_items(node, 1, <<>>)
    ELSE [raised |-> TRUE, value |-> PyNone]

literal_eval(node) ==
    IF node.tag = "Constant" THEN [raised |-> FALSE, value |-> node.value]
    ELSE IF node.tag = "Dict" /\ Len(node.keys) = Len(node.values)
    THEN literal_eval_items(node, 1, <<>>)
    ELSE [raised |-> TRUE, value |-> PyNone]

literal_eval_items(node, i, items) ==
    IF i > Len(node.keys) THEN [raised |-> FALSE, value |-> PyDict(items)]
    ELSE LET entry(k, v) ==
                IF k.raised \/ v.raised THEN [raised |-> TRUE, value |-> PyNone]
                ELSE literal_eval_items(node, i + 1, DictSet(items, k.value, v.value))
         IN  entry(literal_eval(node.keys[i]), literal_eval(node.values[i]))

\* _literal_eval_node(node, label=label)
literal_eval_node(node, label) ==
    LET wrap(r) ==
            IF r.raised
            THEN [raised |-> ValueError("Unable to evaluate " \o label \o " from workflow code"),
                  value  |-> PyNone]
            ELSE [raised |-> NoException, value |-> r.value]
    IN  wrap(literal_eval(node))

\* _is_name(node, name)
is_name(node, name) == node.tag = "Name" /\ node.id = name

\* _is_dag_method_call(call, dag_names, method)
is_dag_method_call(call, dag_names, method) ==
    IF call.func.tag # "Attribute" THEN FALSE
    ELSE IF call.func.value.tag # "Name" THEN FALSE
    ELSE call.func.value.id \in dag_names /\ call.func.attr = method

NodeFields == <<"name", "action", "params">>

\* the evaluations _parse_workflow_node_call makes, in the order it makes
\* them: the first three positional arguments, then the keywords named
\* name, action or params
FieldEvals(call) ==
    LET npos == IF Len(call.args) < 3 THEN Len(call.args) ELSE 3
        kws  == SelectSeq(call.keywords,
                          LAMBDA kw : kw.arg \in {"name", "action", "params"})
    IN  [i \in 1..npos |-> [field |-> NodeFields[i], expr |-> call.args[i]]]
            \o [i \in 1..Len(kws) |-> [field |-> kws[i].arg, expr |-> kws[i].value]]

RECURSIVE eval_fields(_, _, _)
eval_fields(acc, evals, i) ==
    IF i > Len(evals) \/ acc.raised # NoException THEN acc
    ELSE LET store(r) ==
                IF r.raised # NoException THEN [acc EXCEPT !.raised = r.raised]
                ELSE IF evals[i].field = "name" THEN [acc EXCEPT !.name = r.value]
                ELSE IF evals[i].field = "action" THEN [acc EXCEPT !.action = r.value]
                ELSE [acc EXCEPT !.params = r.value]
         IN  eval_fields(store(literal_eval_node(evals[i].expr,
                                                 "node " \o evals[i].field)),
                         evals, i + 1)

NoNode == WorkflowNode("", "", EmptyParams)

\* lines 154-174 of _parse_workflow_node_call: the defaults, the checks and
\* the construction, from the values got for name, action and params
make_node(got, name, action) ==
    IF got.raised # NoException THEN [raised |-> got.raised, node |-> NoNode]
    ELSE IF name = PyNone \/ action = PyNone
    THEN [raised |-> ValueError("WorkflowNode requires values for: "
                            \o (IF name = PyNone THEN "name" ELSE "")
                            \o (IF name = PyNone /\ action = PyNone THEN ", " ELSE "")
                            \o (IF action = PyNone THEN "action" ELSE "")),
          node   |-> NoNode]
    ELSE IF got.params.t # "dict"
    THEN [raised |-> ValueError("WorkflowNode params must be a dictionary"),
          node   |-> NoNode]
    ELSE [raised |-> NoException,
          node   |-> WorkflowNode(name.s, action.s, got.params.items)]

\* mutant of parse_workflow_node_call: the action is not defaulted to the
\* name, so a declaration without action is rejected
parse_workflow_node_call_no_default(call, default_name) ==
    IF ~is_name(call.func, "WorkflowNode")
    THEN [raised |-> ValueError("add_node must wrap a WorkflowNode construction"),
          node   |-> NoNode]
    ELSE LET undefaulted(got) ==
                make_node(got,
                          IF got.name = PyNone THEN default_name ELSE got.name,
                          got.action)
         IN  undefaulted(eval_fields([name |-> PyNone, action |-> PyNone,
                                      params |-> PyDict(<<>>), raised |-> NoException],
                                     FieldEvals(call), 1))

\* _parse_workflow_node_call(call, default_name=default_name):
\* [raised, node]; default_name is a Python value, PyNone when not given
parse_workflow_node_call(call, default_name) ==
    IF ~is_name(call.func, "WorkflowNode")
    THEN [raised |-> ValueError("add_node must wrap a WorkflowNode construction"),
          node   |-> NoNode]
    ELSE LET defaulted(got) ==
                LET name == IF got.name = PyNone THEN default_name ELSE got.name
                IN  make_node(got, name,
                              IF got.action = PyNone /\ name # PyNone
                              THEN name ELSE got.action)
         IN  defaulted(eval_fields([name |-> PyNone, action |-> PyNone,
                                    params |-> PyDict(<<>>), raised |-> NoException],
                                   FieldEvals(call), 1))

(***************************************************************************)
(* parse_workflow_code.  The source is given by its module body (the list  *)
(* of top-level statements).  named_nodes is a function from alias to      *)
(* node.  Every step gives back the exception raised, if any.              *)
(***************************************************************************)
IsCallStmt(stmt) ==
    /\ stmt.tag \in {"Assign", "Expr"}
    /\ stmt.value.tag = "Call"

RECURSIVE bind_dag_names(_, _, _), bind_named_nodes(_, _, _, _), pass_one(_, _, _)

\* for target in stmt.targets: if isinstance(target, ast.Name): dag_names.add(target.id)
bind_dag_names(acc, targets, i) ==
    IF i > Len(targets) THEN acc
    ELSE bind_dag_names(
            IF targets[i].tag = "Name"
            THEN [acc EXCEPT !.dag_names = @ \cup {targets[i].id}]
            ELSE acc,
            targets, i + 1)

\* mutant of bind_named_nodes: named_nodes.setdefault(target.id, ...), an
\* alias keeps the node of its first assignment
bind_named_nodes_keep_first(acc, stmt, targets, i) ==
    IF i > Len(targets) \/ acc.raised # NoException THEN acc
    ELSE bind_named_nodes(
            IF targets[i].tag = "Name"
            THEN LET bind(r) ==
                        IF r.raised # NoException
                        THEN [acc EXCEPT !.raised = r.raised]
                        ELSE IF targets[i].id \in DOMAIN acc.named_nodes
                        THEN acc
                        ELSE [acc EXCEPT !.named_nodes =
                                [k \in (DOMAIN @) \cup {targets[i].id} |->
                                    IF k = targets[i].id THEN r.node ELSE @[k]]]
                 IN  bind(parse_workflow_node_call(stmt.value, PyStr(targets[i].id)))
            ELSE acc,
            stmt, targets, i + 1)

\* for target in stmt.targets: if isinstance(target, ast.Name):
\*     named_nodes[target.id] = _parse_workflow_node_call(stmt.value, default_name=target.id)
bind_named_nodes(acc, stmt, targets, i) ==
    IF i > Len(targets) \/ acc.raised # NoException THEN acc
    ELSE bind_named_nodes(
            IF targets[i].tag = "Name"
            THEN LET bind(r) ==
                        IF r.raised # NoException
                        THEN [acc EXCEPT !.raised = r.raised]
                        ELSE [acc EXCEPT !.named_nodes =
                                [k \in (DOMAIN @) \cup {targets[i].id} |->
                                    IF k = targets[i].id THEN r.node ELSE @[k]]]
                 IN  bind(parse_workflow_node_call(stmt.value, PyStr(targets[i].id)))
            ELSE acc,
            stmt, targets, i + 1)

\* the first loop over module.body: builder aliases and node aliases
pass_one(acc, body, i) ==
    IF i > Len(body) \/ acc.raised # NoException THEN acc
    ELSE pass_one(
            IF body[i].tag = "Assign" /\ body[i].value.tag = "Call"
            THEN IF is_name(body[i].value.func, "WorkflowDAG")
                 THEN bind_dag_names(acc, body[i].targets, 1)
                 ELSE IF is_name(body[i].value.func, "WorkflowNode")
                 THEN bind_named_nodes(acc, body[i], body[i].targets, 1)
                 ELSE acc
            ELSE acc,
            body, i + 1)

\* the graph and the exception after dag.add_node(node) or dag.add_edge(source, target)
dag_add_node(acc, a) ==
    [acc EXCEPT !.dag = [nodes |-> a.nodes, edges |-> a.edges], !.raised = a.raised]

\* the add_node branch of the second loop, for one call
apply_add_node(acc, call, named_nodes) ==
    IF Len(call.args) = 0
    THEN [acc EXCEPT !.raised = ValueError("add_node must receive a WorkflowNode instance")]
    ELSE LET insert(r) ==
                IF r.raised # NoException THEN [acc EXCEPT !.raised = r.raised]
                ELSE dag_add_node(acc, add_node(acc.dag, r.node))
         IN  insert(IF call.args[1].tag = "Call"
                    THEN parse_workflow_node_call(call.args[1], PyNone)
                    ELSE IF call.args[1].tag = "Name"
                            /\ call.args[1].id \in DOMAIN named_nodes
                    THEN [raised |-> NoException, node |-> named_nodes[call.args[1].id]]
                    ELSE [raised |-> ValueError(
                            "add_node expects a WorkflowNode constructor call or named instance"),
                          node   |-> NoNode])

\* mutant of queue_add_edge: a single streaming pass, the edge is added to
\* the graph where its statement stands
add_edge_streaming(acc, call) ==
    IF Len(call.args) < 2
    THEN [acc EXCEPT !.raised = ValueError("add_edge requires source and target node names")]
    ELSE LET apply(source, target) ==
                IF source.raised # NoException THEN [acc EXCEPT !.raised = source.raised]
                ELSE IF target.raised # NoException THEN [acc EXCEPT !.raised = target.raised]
                ELSE dag_add_node(acc, add_edge(acc.dag, source.value.s, target.value.s, 1))
         IN  apply(literal_eval_node(call.args[1], "edge source"),
                   literal_eval_node(call.args[2], "edge target"))

\* the add_edge branch of the second loop, for one call: the edge is queued
queue_add_edge(acc, call) ==
    IF Len(call.args) < 2
    THEN [acc EXCEPT !.raised = ValueError("add_edge requires source and target node names")]
    ELSE LET queue(source, target) ==
                IF source.raised # NoException THEN [acc EXCEPT !.raised = source.raised]
                ELSE IF target.raised # NoException THEN [acc EXCEPT !.raised = target.raised]
                ELSE [acc EXCEPT !.edges = Append(@, <<source.value.s, target.value.s>>)]
         IN  queue(literal_eval_node(call.args[1], "edge source"),
                   literal_eval_node(call.args[2], "edge target"))

RECURSIVE pass_two(_, _, _, _), apply_edges(_, _, _, _), apply_edges_swapped(_, _, _, _)

\* the second loop over module.body
pass_two(acc, body, names, i) ==
    IF i > Len(body) \/ acc.raised # NoException THEN acc
    ELSE pass_two(
            IF ~IsCallStmt(body[i]) THEN acc
            ELSE IF is_dag_method_call(body[i].value, names.dag_names, "add_node")
            THEN apply_add_node(acc, body[i].value, names.named_nodes)
            ELSE IF is_dag_method_call(body[i].value, names.dag_names, "add_edge")
            THEN queue_add_edge(acc, body[i].value)
            ELSE acc,
            body, names, i + 1)

\* the place edge number i takes in its source's successor set: slots[i],
\* cut to the size of the set
SlotAt(slots, i, d, source) ==
    LET size == IF source \in DOMAIN d.edges THEN Len(d.edges[source]) ELSE 0
        want == IF i <= Len(slots) THEN slots[i] ELSE size + 1
    IN  IF want > size + 1 THEN size + 1 ELSE want

\* mutant of apply_edges: the pair is unpacked the wrong way round, so every
\* edge is added from its target to its source
apply_edges_swapped(acc, queued, slots, i) ==
    IF i > Len(queued) \/ acc.raised # NoException THEN acc
    ELSE apply_edges_swapped(
            dag_add_node(acc, add_edge(acc.dag, queued[i][2], queued[i][1],
                                       SlotAt(slots, i, acc.dag, queued[i][2]))),
            queued, slots, i + 1)

\* for source, target in edges: dag.add_edge(source, target)
apply_edges(acc, queued, slots, i) ==
    IF i > Len(queued) \/ acc.raised # NoException THEN acc
    ELSE apply_edges(dag_add_node(acc, add_edge(acc.dag, queued[i][1], queued[i][2],
                                                SlotAt(slots, i, acc.dag, queued[i][1]))),
                     queued, slots, i + 1)

\* mutant of return_dag: the exception is caught and the graph built so far
\* is returned
return_dag_partial(built) == [raised |-> NoException, dag |-> built.dag]

\* return dag, unless an exception is on its way out
return_dag(built) ==
    IF built.raised # NoException
    THEN [raised |-> built.raised, dag |-> NewDAG]
    ELSE [raised |-> NoException, dag |-> built.dag]

\* lines 238-241: the queued edges are added, the graph is returned
finish_edges(walked, slots) == return_dag(apply_edges(walked, walked.edges, slots, 1))

\* lines 202-241, given the aliases the first loop found
build_dag(names, body, slots) ==
    IF names.raised # NoException
    THEN [raised |-> names.raised, dag |-> NewDAG]
    ELSE IF names.dag_names = {}
    THEN [raised |-> ValueError("No WorkflowDAG instance found in the provided code"),
          dag    |-> NewDAG]
    ELSE finish_edges(pass_two([dag |-> NewDAG, edges |-> <<>>,
                                raised |-> NoException], body, names, 1),
                      slots)

\* parse_workflow_code(code), code given by the body of ast.parse(code):
\* [raised, dag].  slots gives the iteration places of the successor sets.
parse_workflow_code(body, slots) ==
    build_dag(pass_one([dag_names |-> {}, named_nodes |-> <<>>,
                        raised |-> NoException], body, 1),
              body, slots)

(***************************************************************************)
(* The plan validation loop.  A source text is given by what Python's      *)
(* parser makes of it: [compile, body], compile the exception compile()    *)
(* raises on it (NoException when it compiles), body the module body.  An  *)
(* Optional value is a sequence: <<>> for None, <<v>> for v.               *)
(***************************************************************************)
SyntaxError(m) == [type |-> "SyntaxError", msg |-> m]

\* MemoryError(): the parser gives up on an expression nested too deep
MemoryError == [type |-> "MemoryError", msg |-> ""]

\* str(exc): a KeyError shows the repr of its argument
ExcStr(exc) == IF exc.type = "KeyError" THEN "'" \o exc.msg \o "'" ELSE exc.msg

PlannedWorkflow(code) == [code |-> code]

WorkflowPlanResult(query, code, compiled, dag, error) ==
    [query |-> query, code |-> code, compiled |-> compiled, dag |-> dag, error |-> error]

\* the two returns of validate_workflow_plan, r being what
\* parse_workflow_code gave
plan_result(p, query, r) ==
    IF r.raised # NoException
    THEN WorkflowPlanResult(query, p.code, FALSE, <<>>, <<ExcStr(r.raised)>>)
    ELSE WorkflowPlanResult(query, p.code, TRUE, <<r.dag>>, <<>>)

\* mutant of validate_workflow_plan: the result of the try block is built
\* before the error is looked at, so a failed extraction is reported with
\* compiled = True
validate_compiled_anyway(p, query, slots) ==
    IF p.code.compile # NoException
    THEN WorkflowPlanResult(query, p.code, FALSE, <<>>, <<ExcStr(p.code.compile)>>)
    ELSE [plan_result(p, query, parse_workflow_code(p.code.body, slots))
            EXCEPT !.compiled = TRUE]

validate_workflow_plan(p, query, slots) ==
    IF p.code.compile # NoException
    THEN WorkflowPlanResult(query, p.code, FALSE, <<>>, <<ExcStr(p.code.compile)>>)
    ELSE plan_result(p, query, parse_workflow_code(p.code.body, slots))

\* mutant of try_block: the two statements of the try block are swapped, so
\* that the source is handed to the extractor before it is compiled
try_block_parse_first(p) ==
    IF p.code.compile # NoException
    THEN <<"parse_workflow_code">>
    ELSE IF parse_workflow_code(p.code.body, <<>>).raised # NoException
    THEN <<"parse_workflow_code">>
    ELSE <<"parse_workflow_code", "compile">>

\* the calls the try block of validate_workflow_plan makes on a plan, in
\* order: an exception raised by compile() leaves the block before
\* parse_workflow_code is called
try_block(p) ==
    IF p.code.compile # NoException
    THEN <<"compile">>
    ELSE <<"compile", "parse_workflow_code">>

\* mutant of loop_condition: the loop runs on to max_attempts whether or
\* not the attempt compiled
loop_condition_no_accept(res, att, max) == att < max

\* mutant of loop_condition: off by one
loop_condition_off_by_one(res, att, max) == ~res.compiled /\ att <= max

\* mutant of loop_condition: the loop goes on until an attempt is valid
loop_condition_unbounded(res, att, max) == ~res.compiled

\* while not result.compiled and attempt < max_attempts
loop_condition(res, att, max) == ~res.compiled /\ att < max

\* result.error or "Unknown compilation error"
error_message(res) ==
    IF res.error = <<>> \/ res.error = <<"">>
    THEN "Unknown compilation error"
    ELSE res.error[1]

\* mutant of revised: the revised plan is validated but `result` is not
\* assigned, so the result of the attempt before stays
revised_stale(p, res, att, code, query, slots) ==
    [plan    |-> PlannedWorkflow(code),
     result  |-> [res EXCEPT !.compiled =
                    validate_workflow_plan(PlannedWorkflow(code), query, slots).compiled],
     attempt |-> att + 1]

\* the body of the loop, `code` being what revise_workflow returned
revised(p, res, att, code, query, slots) ==
    [plan    |-> PlannedWorkflow(code),
     result  |-> validate_workflow_plan(PlannedWorkflow(code), query, slots),
     attempt |-> att + 1]

(***************************************************************************)
(* The candidate sources the orchestrator may return.                      *)
(***************************************************************************)
StrConst(text) == Constant(PyStr(text))

DagAssign(alias) == Assign(<<Name(alias)>>, CallExpr(Name("WorkflowDAG"), <<>>, <<>>))

NodeCall(args, keywords) == CallExpr(Name("WorkflowNode"), args, keywords)

AddNodeStmt(alias, arg) ==
    ExprStmt(CallExpr(Attribute(Name(alias), "add_node"), <<arg>>, <<>>))

AddEdgeStmt(alias, source, target) ==
    ExprStmt(CallExpr(Attribute(Name(alias), "add_edge"),
                      <<StrConst(source), StrConst(target)>>, <<>>))

Compiles(body) == [compile |-> NoException, body |-> body]

SrcSyntaxError ==
    [compile |-> SyntaxError("invalid syntax (<workflow_plan>, line 3)"), body |-> <<>>]

SrcUnclosed ==
    [compile |-> SyntaxError("'(' was never closed (<workflow_plan>, line 5)"), body |-> <<>>]

\* an assignment of a constant under tens of thousands of unary minus
\* signs: compile() raises MemoryError, whose str() is empty
SrcTooDeep == [compile |-> MemoryError, body |-> <<>>]

SrcNoBuilder == Compiles(<<ImportFrom, AddNodeStmt("dag", NodeCall(<<StrConst("a")>>, <<>>))>>)

SrcDuplicate ==
    Compiles(<<ImportFrom, DagAssign("dag"),
               AddNodeStmt("dag", NodeCall(<<StrConst("a")>>, <<>>)),
               AddNodeStmt("dag", NodeCall(<<StrConst("a"), StrConst("send_email")>>, <<>>))>>)

SrcUnknownEdge ==
    Compiles(<<ImportFrom, DagAssign("dag"),
               AddNodeStmt("dag", NodeCall(<<StrConst("a")>>, <<>>)),
               AddEdgeStmt("dag", "a", "b")>>)

SrcNotANode ==
    Compiles(<<DagAssign("dag"), AddNodeStmt("dag", StrConst("a"))>>)

\* a node whose name is written as an expression, not as a literal
SrcNonLiteral ==
    Compiles(<<DagAssign("dag"), AddNodeStmt("dag", NodeCall(<<BinOp>>, <<>>))>>)

SrcChain ==
    Compiles(<<ImportFrom, DagAssign("dag"),
               AddNodeStmt("dag", NodeCall(<<StrConst("a")>>, <<>>)),
               AddNodeStmt("dag", NodeCall(<<StrConst("b"), StrConst("send_email")>>, <<>>)),
               AddEdgeStmt("dag", "a", "b")>>)

SrcFanOut ==
    Compiles(<<DagAssign("dag"),
               Assign(<<Name("first")>>, NodeCall(<<>>, <<Keyword("name", StrConst("a"))>>)),
               AddEdgeStmt("dag", "a", "b"),
               AddNodeStmt("dag", Name("first")),
               AddNodeStmt("dag", NodeCall(<<StrConst("b")>>, <<>>)),
               AddNodeStmt("dag", NodeCall(<<StrConst("c")>>, <<>>)),
               AddEdgeStmt("dag", "a", "c")>>)

SrcCycle ==
    Compiles(<<DagAssign("dag"),
               AddNodeStmt("dag", NodeCall(<<StrConst("a")>>, <<>>)),
               AddNodeStmt("dag", NodeCall(<<StrConst("b")>>, <<>>)),
               AddEdgeStmt("dag", "a", "b"),
               AddEdgeStmt("dag", "b", "a")>>)

Sources ==
    {SrcSyntaxError, SrcUnclosed, SrcTooDeep, SrcNoBuilder, SrcDuplicate, SrcUnknownEdge,
     SrcNotANode, SrcNonLiteral, SrcChain, SrcFanOut, SrcCycle}

\* the iteration places the successor sets of an extracted graph may take:
\* every new member last, or every new member first
SlotChoices == {<<>>, <<1, 1, 1, 1>>}

Query == "send a status update"

(***************************************************************************)
(* build_and_validate_workflow_plan as a state machine: the first attempt, *)
(* one step per turn of the loop, and the return.                          *)
(***************************************************************************)
NoPlan == PlannedWorkflow(Compiles(<<>>))

NoPlanResult == WorkflowPlanResult("", Compiles(<<>>), FALSE, <<>>, <<>>)

InitLoop ==
    /\ pc = "idle"
    /\ max_attempts = 0
    /\ attempt = 0
    /\ plan = NoPlan
    /\ result = NoPlanResult
    /\ calls = <<>>
    /\ attempts = <<>>
    /\ steps = <<>>

\* lines 145-147: attempt = 1; plan = build_workflow_plan(...);
\* result = validate_workflow_plan(plan, query)
FirstAttempt ==
    /\ pc = "idle"
    /\ \E max \in 0..MaxAttempts, code \in Sources, slots \in SlotChoices :
            /\ max_attempts' = max
            /\ attempt' = 1
            /\ plan' = PlannedWorkflow(code)
            /\ result' = validate_workflow_plan(PlannedWorkflow(code), Query, slots)
            /\ calls' = <<[fn |-> "plan_workflow", task |-> Query,
                           previous_code |-> <<>>, error_message |-> <<>>,
                           returned |-> code]>>
            /\ attempts' = <<result'>>
            /\ steps' = <<try_block(PlannedWorkflow(code))>>
    /\ pc' = "loop"
    /\ UNCHANGED <<dagvars, parsevars>>

\* lines 148-160: one turn of the loop.  The attempt counter is capped at
\* MaxAttempts, the largest max_attempts a session is given.
Revise ==
    /\ pc = "loop"
    /\ loop_condition(result, attempt, max_attempts)
    /\ attempt < MaxAttempts
    /\ \E code \in Sources, slots \in SlotChoices :
        LET step(n) ==
                /\ plan' = n.plan
                /\ result' = n.result
                /\ attempt' = n.attempt
        IN  /\ step(revised(plan, result, attempt, code, Query, slots))
            /\ calls' = Append(calls,
                               [fn |-> "revise_workflow", task |-> Query,
                                previous_code |-> <<plan.code>>,
                                error_message |-> <<error_message(result)>>,
                                returned |-> code])
            /\ attempts' = Append(attempts, result')
            /\ steps' = Append(steps, try_block(PlannedWorkflow(code)))
    /\ UNCHANGED <<pc, max_attempts>>
    /\ UNCHANGED <<dagvars, parsevars>>

\* line 162: return result
Return ==
    /\ pc = "loop"
    /\ ~loop_condition(result, attempt, max_attempts)
    /\ pc' = "done"
    /\ UNCHANGED <<max_attempts, attempt, plan, result, calls, attempts, steps>>
    /\ UNCHANGED <<dagvars, parsevars>>

NextLoop == FirstAttempt \/ Revise \/ Return

(***************************************************************************)
(* The source texts parse_workflow_code is called on.  A text is given by  *)
(* the builder aliases it constructs and its builder calls, in order.  A   *)
(* node declaration gives name, action and params each as an Optional      *)
(* expression; its form tells how it is written: "positional" and          *)
(* "keyword" construct the node inside add_node, "named" assigns it to     *)
(* the variable `target` and hands that variable to add_node.              *)
(***************************************************************************)
Decl(alias, form, target, name, action, params) ==
    [k |-> "node", alias |-> alias, form |-> form, target |-> target,
     name |-> name, action |-> action, params |-> params]

Edge(alias, s, t) == [k |-> "edge", alias |-> alias, s |-> s, t |-> t]

\* the keywords of a node construction, for the fields that are given
NodeKeywords(d) ==
    (IF d.name = <<>> THEN <<>> ELSE <<Keyword("name", d.name[1])>>)
        \o (IF d.action = <<>> THEN <<>> ELSE <<Keyword("action", d.action[1])>>)
        \o (IF d.params = <<>> THEN <<>> ELSE <<Keyword("params", d.params[1])>>)

\* a statement that is no builder call
Other(stmt) == [k |-> "other", stmt |-> stmt]

\* target = WorkflowNode(...), a node alias assigned on its own
Bind(target, name, action, params) ==
    [k |-> "bind", target |-> target, name |-> name, action |-> action,
     params |-> params]

\* alias.add_node(target), a node alias handed to a builder
Use(alias, target) == [k |-> "use", alias |-> alias, target |-> target]

\* the statements of one builder call
StmtsOf(d) ==
    IF d.k = "other" THEN <<d.stmt>>
    ELSE IF d.k = "bind"
    THEN <<Assign(<<Name(d.target)>>, NodeCall(<<>>, NodeKeywords(d)))>>
    ELSE IF d.k = "use" THEN <<AddNodeStmt(d.alias, Name(d.target))>>
    ELSE IF d.k = "edge" THEN <<AddEdgeStmt(d.alias, d.s, d.t)>>
    ELSE IF d.form = "positional"
    THEN <<AddNodeStmt(d.alias, NodeCall(d.name \o d.action \o d.params, <<>>))>>
    ELSE IF d.form = "keyword"
    THEN <<AddNodeStmt(d.alias, NodeCall(<<>>, NodeKeywords(d)))>>
    ELSE <<Assign(<<Name(d.target)>>, NodeCall(<<>>, NodeKeywords(d))),
           AddNodeStmt(d.alias, Name(d.target))>>

RECURSIVE StmtsOfAll(_, _)
StmtsOfAll(stmts, i) ==
    IF i > Len(stmts) THEN <<>> ELSE StmtsOf(stmts[i]) \o StmtsOfAll(stmts, i + 1)

\* module.body of the text: the import, the builder constructions, the calls
Body(src) ==
    <<ImportFrom>> \o [i \in 1..Len(src.builders) |-> DagAssign(src.builders[i])]
        \o StmtsOfAll(src.stmts, 1)

Text(builders, stmts) == [builders |-> builders, stmts |-> stmts]

OpsParams == DictExpr(<<StrConst("channel")>>, <<StrConst("ops")>>)

\* the builder calls the texts are put together from
CallPool ==
    {Decl("dag", "positional", "", <<StrConst("a")>>, <<>>, <<>>),
     Decl("dag", "keyword", "", <<StrConst("b")>>, <<StrConst("send_email")>>, <<OpsParams>>),
     Decl("dag", "named", "c", <<>>, <<>>, <<>>),
     Edge("dag", "a", "b"),
     Edge("dag", "b", "c"),
     Decl("wf", "positional", "", <<StrConst("a")>>, <<StrConst("notify")>>, <<>>),
     Edge("wf", "a", "b")}

BuilderChoices == {<<>>, <<"dag">>, <<"dag", "wf">>}

RECURSIVE SeqsUpTo(_, _)
SeqsUpTo(S, n) ==
    IF n = 0 THEN {<<>>}
    ELSE LET shorter == SeqsUpTo(S, n - 1)
         IN  shorter \cup {Append(q, x) : q \in {r \in shorter : Len(r) = n - 1}, x \in S}

PoolTexts == {Text(b, q) : b \in BuilderChoices, q \in SeqsUpTo(CallPool, MaxStmts)}

\* the ways one node declaration can be written: each field left out, given
\* as a string literal (the empty one included), as a number, or as an
\* unquoted identifier; params also as a mapping with an unquoted value
NameExprs ==
    {<<>>, <<StrConst("greet")>>, <<StrConst("")>>, <<Constant(PyInt("7"))>>,
     <<Name("greet")>>}

ActionExprs == {<<>>, <<StrConst("send_email")>>, <<StrConst("")>>, <<Name("send_email")>>}

ParamsExprs ==
    {<<>>, <<OpsParams>>, <<StrConst("ops")>>,
     <<DictExpr(<<StrConst("channel")>>, <<Name("slack_channel")>>)>>}

\* positional arguments cannot skip a field
Declarations ==
    {d \in {Decl("dag", form, "intro", n, a, ps) :
                form \in {"positional", "keyword", "named"},
                n \in NameExprs, a \in ActionExprs, ps \in ParamsExprs} :
        d.form = "positional" =>
            /\ (d.action # <<>> => d.name # <<>>)
            /\ (d.params # <<>> => d.action # <<>>)}

\* a text with one declaration, alone or after another node
FormTexts ==
    {Text(<<"dag">>, <<d>>) : d \in Declarations}
        \cup {Text(<<"dag">>, <<Decl("dag", "positional", "", <<StrConst("a")>>, <<>>, <<>>), d>>) :
                    d \in Declarations}

\* statements that would act on the world or on the graph if the text were
\* run: os.remove("data"), a = fetch(), dag.clear(); and a declaration
\* whose name is the call input()
RemoveFile ==
    Other(ExprStmt(CallExpr(Attribute(Name("os"), "remove"), <<StrConst("data")>>, <<>>)))

FetchName == Other(Assign(<<Name("a")>>, CallExpr(Name("fetch"), <<>>, <<>>)))

ClearGraph == Other(ExprStmt(CallExpr(Attribute(Name("dag"), "clear"), <<>>, <<>>)))

InputName ==
    Decl("dag", "positional", "", <<CallExpr(Name("input"), <<>>, <<>>)>>, <<>>, <<>>)

EffectPool ==
    {Decl("dag", "positional", "", <<StrConst("a")>>, <<>>, <<>>),
     Decl("dag", "keyword", "", <<StrConst("b")>>, <<StrConst("send_email")>>, <<OpsParams>>),
     Edge("dag", "a", "b"),
     RemoveFile, FetchName, ClearGraph, InputName}

EffectTexts == {Text(<<"dag">>, q) : q \in SeqsUpTo(EffectPool, MaxStmts)}

\* texts that assign node aliases and hand them to the builder, in any
\* order: first is assigned node a or node b, second a node without a name
AliasPool ==
    {Bind("first", <<StrConst("a")>>, <<>>, <<>>),
     Bind("first", <<StrConst("b")>>, <<StrConst("send_email")>>, <<>>),
     Bind("second", <<>>, <<>>, <<>>),
     Use("dag", "first"),
     Use("dag", "second")}

AliasTexts == {Text(<<"dag">>, q) : q \in SeqsUpTo(AliasPool, MaxStmts)}

(***************************************************************************)
(* parse_workflow_code as a state machine: one call on one text.           *)
(***************************************************************************)
NoText == Text(<<>>, <<>>)

IdleExtract ==
    /\ source_text = NoText
    /\ extracted = <<>>

InitExtract ==
    /\ source_text \in PoolTexts \cup FormTexts \cup EffectTexts \cup AliasTexts
    /\ extracted = <<>>

Extract ==
    /\ extracted = <<>>
    /\ \E slots \in SlotChoices :
            extracted' = <<parse_workflow_code(Body(source_text), slots)>>
    /\ UNCHANGED <<source_text, dagvars, loopvars>>

NextExtract == Extract

(***************************************************************************)
(* Specifications: the graph under its callers, and one planning session.  *)
(***************************************************************************)
Init == InitDag /\ InitLoop /\ IdleExtract

Spec == Init /\ [][NextDag]_vars

SessionSpec == Init /\ [][NextLoop]_vars

\* the session is a sequential procedure and every call it makes returns:
\* a step that can be taken is taken
FairSessionSpec ==
    /\ SessionSpec
    /\ WF_vars(FirstAttempt)
    /\ WF_vars(Revise)
    /\ WF_vars(Return)

ExtractInit == InitDag /\ InitLoop /\ InitExtract

ExtractSpec == ExtractInit /\ [][NextExtract]_vars

(***************************************************************************)
(* Graph notions the properties are stated with; they are defined on the   *)
(* edge relation alone, not by the traversal.                              *)
(***************************************************************************)
\* the edge relation as a set of pairs
EdgePairs(E) == UNION {{<<s, t>> : t \in Range(E[s])} : s \in DOMAIN E}

\* the names reachable from the set S along one edge or more
RECURSIVE ReachFrom(_, _)
ReachFrom(E, S) ==
    LET more == S \cup {e[2] : e \in {x \in EdgePairs(E) : x[1] \in S}}
    IN  IF more = S THEN S ELSE ReachFrom(E, more)

Reach(E, n) == ReachFrom(E, {e[2] : e \in {x \in EdgePairs(E) : x[1] = n}})

Cyclic(E) == \E n \in DOMAIN E : n \in Reach(E, n)

\* the names of a sequence of nodes
NamesOf(ns) == [i \in 1..Len(ns) |-> ns[i].name]

\* the place of name x in a sequence of names (0 when absent)
Pos(seq, x) ==
    IF x \in Range(seq) THEN CHOOSE i \in 1..Len(seq) : seq[i] = x ELSE 0

\* seq holds every name of S exactly once and nothing else
ExactlyOnce(seq, S) == Len(seq) = Cardinality(S) /\ Range(seq) = S

\* every edge's source stands before its target in seq
RespectsEdges(seq, E) ==
    \A e \in EdgePairs(E) :
        Pos(seq, e[1]) > 0 /\ Pos(seq, e[2]) > 0 /\ Pos(seq, e[1]) < Pos(seq, e[2])

CycleError == ValueError("Cycle detected in workflow")

(***************************************************************************)
(* C1: on an acyclic graph topological_order() returns every node of the   *)
(* graph exactly once, and every edge's source before its target.          *)
(***************************************************************************)
C1_TopologicalOrderSorts ==
    (last.op = "topological_order" /\ ~Cyclic(edges)) =>
        /\ last.raised = NoException
        /\ ExactlyOnce(NamesOf(last.ret), Keys(nodes))
        /\ \A i \in 1..Len(last.ret) : last.ret[i] = Lookup(nodes, last.ret[i].name)
        /\ RespectsEdges(NamesOf(last.ret), edges)

\* an order was computed for three nodes and two edges or more, one of the
\* edges running against the insertion order
C1_Witness ==
    /\ last.op = "topological_order"
    /\ last.raised = NoException
    /\ Len(nodes) = 3
    /\ EdgeCount(edges) >= 2
    /\ \E e \in EdgePairs(edges) :
            Pos(NamesOf(nodes), e[2]) < Pos(NamesOf(nodes), e[1])

(***************************************************************************)
(* C2: on a graph with a cycle (a self-loop included) topological_order()  *)
(* fails with the cycle error and returns no order, wherever the cycle     *)
(* lies relative to the node the traversal starts from.                    *)
(***************************************************************************)
C2_CycleRaises ==
    (last.op = "topological_order" /\ Cyclic(edges)) =>
        /\ last.raised = CycleError
        /\ last.ret = <<>>

\* the traversal started from a node that lies on no cycle and still failed
C2_Witness ==
    /\ last.op = "topological_order"
    /\ Cyclic(edges)
    /\ Len(nodes) = 3
    /\ nodes[1].name \notin Reach(edges, nodes[1].name)
    /\ last.raised = CycleError

(***************************************************************************)
(* C3: add_node of a name that is already a key fails with the             *)
(* duplicate-node error and leaves the node mapping and every successor    *)
(* set as they were; any other add_node appends the node and gives it an   *)
(* empty successor set, leaving the rest alone.                            *)
(***************************************************************************)
DuplicateError(name) == ValueError("Node with name '" \o name \o "' already exists")

C3_AddNodeStep ==
    last'.op = "add_node" =>
        LET name == last'.arg[1]
            node == WorkflowNode(last'.arg[1], last'.arg[2], EmptyParams)
        IN  IF name \in Keys(nodes)
            THEN /\ last'.raised = DuplicateError(name)
                 /\ nodes' = nodes
                 /\ edges' = edges
            ELSE /\ last'.raised = NoException
                 /\ nodes' = Append(nodes, node)
                 /\ DOMAIN edges' = DOMAIN edges \cup {name}
                 /\ edges'[name] = <<>>
                 /\ \A k \in DOMAIN edges : edges'[k] = edges[k]

C3_AddNode == [][C3_AddNodeStep]_dagvars

\* a duplicate was rejected whose action differs from the stored node's,
\* and the stored node has successors
C3_Witness ==
    /\ last.op = "add_node"
    /\ last.raised = DuplicateError(last.arg[1])
    /\ Lookup(nodes, last.arg[1]).action # last.arg[2]
    /\ edges[last.arg[1]] # <<>>

(***************************************************************************)
(* C4: add_edge fails with the unknown-node error when source or target    *)
(* is no key of the node mapping; the failing call changes neither the     *)
(* node mapping nor any successor set, and creates none.                   *)
(***************************************************************************)
UnknownNodeError == KeyError("Both source and target must be added before connecting")

C4_AddEdgeUnknownStep ==
    (/\ last'.op = "add_edge"
     /\ (last'.arg[1] \notin Keys(nodes) \/ last'.arg[2] \notin Keys(nodes))) =>
        /\ last'.raised = UnknownNodeError
        /\ nodes' = nodes
        /\ edges' = edges
        /\ DOMAIN edges' = Keys(nodes)

C4_AddEdgeUnknown == [][C4_AddEdgeUnknownStep]_dagvars

\* an edge from a known source to an unknown target was rejected on a graph
\* that holds an edge already
C4_Witness ==
    /\ last.op = "add_edge"
    /\ last.raised = UnknownNodeError
    /\ last.arg[1] \in Keys(nodes)
    /\ last.arg[2] \notin Keys(nodes)
    /\ EdgeCount(edges) >= 1

(***************************************************************************)
(* C5: add_edge of an edge the graph already holds succeeds and leaves     *)
(* the graph exactly as it was.                                            *)
(***************************************************************************)
C5_AddEdgeAgainStep ==
    (/\ last'.op = "add_edge"
     /\ <<last'.arg[1], last'.arg[2]>> \in EdgePairs(edges)) =>
        /\ last'.raised = NoException
        /\ nodes' = nodes
        /\ edges' = edges

C5_AddEdgeIdempotent == [][C5_AddEdgeAgainStep]_dagvars

\* an add_edge call succeeded without changing the graph
C5_Witness ==
    /\ last.op = "add_edge"
    /\ last.raised = NoException
    /\ ~last.changed
    /\ <<last.arg[1], last.arg[2]>> \in EdgePairs(edges)

(***************************************************************************)
(* C6: on an acyclic graph, with a runner that never fails, execute runs   *)
(* the runner exactly once on every node, in the order topological_order() *)
(* gives (so on no node before its predecessors), and returns the          *)
(* runner's results in that order.                                         *)
(***************************************************************************)
C6_ExecuteRunsInOrder ==
    (last.op = "execute" /\ ~Cyclic(edges) /\ last.fails = {}) =>
        /\ last.raised = NoException
        /\ ExactlyOnce(last.invoked, Keys(nodes))
        /\ RespectsEdges(last.invoked, edges)
        /\ last.invoked = NamesOf(topological_order(Self).ret)
        /\ last.ret = [i \in 1..Len(last.invoked) |->
                            RunnerValue(Lookup(nodes, last.invoked[i]))]

\* three nodes were run, in an order other than the insertion order
C6_Witness ==
    /\ last.op = "execute"
    /\ last.fails = {}
    /\ last.raised = NoException
    /\ Len(last.invoked) = 3
    /\ EdgeCount(edges) >= 2
    /\ last.invoked # NamesOf(nodes)

(***************************************************************************)
(* C7: when the runner fails on a node, execute stops there: the runner    *)
(* was invoked on the nodes of the topological order up to that node and   *)
(* on none after it, the runner's failure reaches the caller, and no       *)
(* result list is returned.                                                *)
(***************************************************************************)
C7_ExecuteStopsAtFailure ==
    (/\ last.op = "execute"
     /\ ~Cyclic(edges)
     /\ last.fails \cap Keys(nodes) # {}) =>
        LET order == NamesOf(topological_order(Self).ret)
            k     == Len(last.invoked)
        IN  /\ k >= 1
            /\ last.invoked = SubSeq(order, 1, k)
            /\ last.invoked[k] \in last.fails
            /\ \A i \in 1..(k - 1) : last.invoked[i] \notin last.fails
            /\ last.raised = RunnerError(last.invoked[k])
            /\ last.ret = <<>>

\* the runner failed on the second of three nodes; it would have failed on
\* the third as well
C7_Witness ==
    /\ last.op = "execute"
    /\ last.raised.type = "RunnerError"
    /\ Len(nodes) = 3
    /\ Len(last.invoked) = 2
    /\ Keys(nodes) \ Range(last.invoked) \subseteq last.fails

(***************************************************************************)
(* Notions the properties of the validation loop are stated with.  What a  *)
(* candidate source is worth is told from extraction with the successor    *)
(* sets in insertion order; two graphs are the same graph when they hold   *)
(* the same nodes in the same order and the same edges.                    *)
(***************************************************************************)
SameGraph(d1, d2) ==
    /\ d1.nodes = d2.nodes
    /\ DOMAIN d1.edges = DOMAIN d2.edges
    /\ EdgePairs(d1.edges) = EdgePairs(d2.edges)

Extracted(code) == parse_workflow_code(code.body, <<>>)

\* the source passes the syntax check and extraction
Valid(code) == code.compile = NoException /\ Extracted(code).raised = NoException

\* the diagnostic of a source that is not valid
Diagnostic(code) ==
    IF code.compile # NoException
    THEN ExcStr(code.compile)
    ELSE ExcStr(Extracted(code).raised)

(***************************************************************************)
(* C8: the loop accepts the first attempt that passes the syntax check and *)
(* extraction and stops there: every attempt but the last one has failed   *)
(* (no call is issued after an accepted attempt), the loop goes on only    *)
(* after a failure, and it returns the accepted attempt.                   *)
(***************************************************************************)
C8_AcceptsFirstValid ==
    pc # "idle" =>
        /\ Len(attempts) = Len(calls)
        /\ \A i \in 1..Len(calls) : attempts[i].compiled = Valid(calls[i].returned)
        /\ \A i \in 1..(Len(calls) - 1) : ~Valid(calls[i].returned)
        /\ (pc = "done" /\ \E i \in 1..Len(calls) : Valid(calls[i].returned)) =>
                /\ result.compiled
                /\ result.code = calls[Len(calls)].returned

\* the first attempt failed the syntax check, the revision was accepted,
\* and no third call was made although max_attempts is 3
C8_Witness ==
    /\ pc = "done"
    /\ max_attempts = 3
    /\ Len(calls) = 2
    /\ calls[1].returned.compile.type = "SyntaxError"
    /\ calls[2].fn = "revise_workflow"
    /\ result.compiled

(***************************************************************************)
(* C9 as stated: the number of attempts of a session (the generation call  *)
(* and the revision calls) never exceeds max_attempts.                     *)
(***************************************************************************)
C9_AttemptsWithinMax ==
    pc # "idle" => Len(calls) <= max_attempts

(***************************************************************************)
(* C9 as amended: the first attempt is always made; the number of          *)
(* attempts never exceeds max_attempts when max_attempts is 1 or more, and *)
(* is exactly 1 when max_attempts is 0 or less.                            *)
(***************************************************************************)
C9_AttemptsBounded ==
    pc # "idle" =>
        /\ Len(calls) = attempt
        /\ Len(attempts) = attempt
        /\ attempt >= 1
        /\ attempt <= (IF max_attempts >= 1 THEN max_attempts ELSE 1)

\* a session used all of its three attempts without success
C9_Witness ==
    /\ pc = "done"
    /\ max_attempts = 3
    /\ Len(calls) = 3
    /\ ~result.compiled

(***************************************************************************)
(* C10: the result of a session describes the last attempt produced and    *)
(* has one of two shapes: accepted (compiled, the graph extracted from the *)
(* last source, no diagnostic) or exhausted (not compiled, no graph, the   *)
(* diagnostic of the last source); code is the last source in both.        *)
(***************************************************************************)
C10_ResultDescribesLastAttempt ==
    pc # "idle" =>
        LET code == calls[Len(calls)].returned
        IN  /\ result.code = code
            /\ result.query = Query
            /\ result = attempts[Len(attempts)]
            /\ IF Valid(code)
               THEN /\ result.compiled
                    /\ Len(result.dag) = 1
                    /\ SameGraph(result.dag[1], Extracted(code).dag)
                    /\ result.error = <<>>
               ELSE /\ ~result.compiled
                    /\ result.dag = <<>>
                    /\ result.error = <<Diagnostic(code)>>

\* an exhausted session whose last two attempts failed with different
\* diagnostics, the last one in extraction
C10_Witness ==
    /\ pc = "done"
    /\ Len(calls) = 3
    /\ ~result.compiled
    /\ calls[3].returned.compile = NoException
    /\ Diagnostic(calls[2].returned) # Diagnostic(calls[3].returned)
    /\ result.error = <<Diagnostic(calls[3].returned)>>

(***************************************************************************)
(* C11: within an attempt the syntax check runs first, and a source that   *)
(* fails it is never handed to the extractor: the attempt ends with the    *)
(* diagnostic of the syntax check and no graph, and what follows is a      *)
(* revision call or the return of that attempt.                            *)
(***************************************************************************)
C11_SyntaxFailureSkipsExtraction ==
    /\ Len(steps) = Len(calls)
    /\ \A i \in 1..Len(steps) :
            /\ steps[i][1] = "compile"
            /\ (calls[i].returned.compile = NoException) =>
                    steps[i] = <<"compile", "parse_workflow_code">>
            /\ (calls[i].returned.compile # NoException) =>
                    /\ "parse_workflow_code" \notin Range(steps[i])
                    /\ ~attempts[i].compiled
                    /\ attempts[i].dag = <<>>
                    /\ attempts[i].error = <<ExcStr(calls[i].returned.compile)>>
                    /\ (i < Len(calls)) => calls[i + 1].fn = "revise_workflow"
                    /\ (i = Len(calls) /\ pc = "done") => result = attempts[i]

\* a first attempt that failed the syntax check was revised, and the
\* revision failed it as well and was returned
C11_Witness ==
    /\ pc = "done"
    /\ Len(calls) = 2
    /\ calls[1].returned.compile.type = "SyntaxError"
    /\ calls[2].returned.compile.type = "SyntaxError"
    /\ steps = <<(<<"compile">>), (<<"compile">>)>>
    /\ result.error = <<ExcStr(calls[2].returned.compile)>>

(***************************************************************************)
(* C12 as stated: the first call of a session is the only plan_workflow    *)
(* call; every later call is a revise_workflow call that carries the       *)
(* source of the attempt just before it and that attempt's diagnostic,     *)
(* verbatim.                                                               *)
(***************************************************************************)
C12_RevisionCarriesVerbatim ==
    pc # "idle" =>
        /\ calls[1].fn = "plan_workflow"
        /\ \A i \in 2..Len(calls) :
                /\ calls[i].fn = "revise_workflow"
                /\ calls[i].previous_code = <<calls[i - 1].returned>>
                /\ calls[i].error_message = <<Diagnostic(calls[i - 1].returned)>>

(***************************************************************************)
(* C12 as amended: as stated, except that an empty diagnostic (a failure   *)
(* whose exception has an empty message) is replaced by the text           *)
(* "Unknown compilation error" in the revision call.                       *)
(***************************************************************************)
C12_RevisionCarriesPrevious ==
    pc # "idle" =>
        /\ calls[1].fn = "plan_workflow"
        /\ calls[1].previous_code = <<>>
        /\ calls[1].error_message = <<>>
        /\ \A i \in 2..Len(calls) :
                /\ calls[i].fn = "revise_workflow"
                /\ calls[i].task = calls[1].task
                /\ calls[i].previous_code = <<calls[i - 1].returned>>
                /\ calls[i].error_message =
                        <<IF Diagnostic(calls[i - 1].returned) = ""
                          THEN "Unknown compilation error"
                          ELSE Diagnostic(calls[i - 1].returned)>>

\* a third attempt was requested with the source and the diagnostic of the
\* second, which differ from those of the first
C12_Witness ==
    /\ Len(calls) = 3
    /\ calls[1].returned # calls[2].returned
    /\ Diagnostic(calls[1].returned) # Diagnostic(calls[2].returned)
    /\ Diagnostic(calls[2].returned) # ""
    /\ calls[3].previous_code = <<calls[2].returned>>
    /\ calls[3].error_message = <<Diagnostic(calls[2].returned)>>

(***************************************************************************)
(* Notions the properties of extraction are stated with.  They read the    *)
(* text, not the extractor: which calls go through a builder alias, which  *)
(* names the text declares and which edges it asks for.                    *)
(***************************************************************************)
Returned == extracted[1]

\* the calls of the text made through a variable that holds a builder
NodeCalls(src) ==
    SelectSeq(src.stmts, LAMBDA d : d.k = "node" /\ d.alias \in Range(src.builders))

EdgeCalls(src) ==
    SelectSeq(src.stmts, LAMBDA d : d.k = "edge" /\ d.alias \in Range(src.builders))

\* the name a declaration gives its node: the string literal written for
\* name; when name is left out, the variable the node is assigned to
DeclaredName(d) ==
    IF d.name # <<>> THEN d.name[1].value.s ELSE d.target

DeclaredNames(src) == {DeclaredName(NodeCalls(src)[i]) : i \in 1..Len(NodeCalls(src))}

DeclaredEdges(src) ==
    {<<EdgeCalls(src)[i].s, EdgeCalls(src)[i].t>> : i \in 1..Len(EdgeCalls(src))}

\* no name is declared twice
DistinctNames(src) == Cardinality(DeclaredNames(src)) = Len(NodeCalls(src))

\* the text with its node declarations moved before its edge calls, and
\* with its edge calls moved before its node declarations
NodesFirst(src) ==
    Text(src.builders, SelectSeq(src.stmts, LAMBDA d : d.k = "node")
                            \o SelectSeq(src.stmts, LAMBDA d : d.k = "edge"))

EdgesFirst(src) ==
    Text(src.builders, SelectSeq(src.stmts, LAMBDA d : d.k = "edge")
                            \o SelectSeq(src.stmts, LAMBDA d : d.k = "node"))

SameOutcome(r1, r2) == r1.raised = r2.raised /\ SameGraph(r1.dag, r2.dag)

(***************************************************************************)
(* C13: the edges of a text are applied after all of its node              *)
(* declarations.  In a text that constructs a builder and declares no name *)
(* twice, extraction succeeds exactly when both endpoints of every edge    *)
(* call are declared somewhere in the text, before or after the call, and  *)
(* fails with the unknown-node error otherwise; and moving the node        *)
(* declarations before or behind the edge calls changes nothing in what    *)
(* extraction gives.                                                       *)
(***************************************************************************)
C13_EdgesAfterNodes ==
    (extracted # <<>> /\ source_text \in PoolTexts) =>
        /\ (source_text.builders # <<>> /\ DistinctNames(source_text)) =>
                IF \A e \in DeclaredEdges(source_text) :
                        e[1] \in DeclaredNames(source_text) /\ e[2] \in DeclaredNames(source_text)
                THEN Returned.raised = NoException
                ELSE Returned.raised = UnknownNodeError
        /\ SameOutcome(Returned, parse_workflow_code(Body(NodesFirst(source_text)), <<>>))
        /\ SameOutcome(Returned, parse_workflow_code(Body(EdgesFirst(source_text)), <<>>))

\* a text whose first call is an edge between two nodes declared after it
\* was extracted, and the graph holds the edge
C13_Witness ==
    /\ extracted # <<>>
    /\ Len(source_text.stmts) = 4
    /\ source_text.stmts[1].k = "edge"
    /\ source_text.stmts[1].alias \in Range(source_text.builders)
    /\ source_text.stmts[4].k = "node"
    /\ Returned.raised = NoException
    /\ <<source_text.stmts[1].s, source_text.stmts[1].t>> \in EdgePairs(Returned.dag.edges)
    /\ Len(Returned.dag.nodes) = 3

(***************************************************************************)
(* A text is well formed when it constructs one builder, every declaration *)
(* made through a builder writes its fields as literals of the right type  *)
(* (name a string, or left out where a variable supplies it; action a      *)
(* string or left out; params a mapping of literals or left out), no name  *)
(* is declared twice and every edge joins declared names.                  *)
(***************************************************************************)
IsStrLiteral(e) == e.tag = "Constant" /\ e.value.t = "str"

IsLiteralDict(e) ==
    /\ e.tag = "Dict"
    /\ \A i \in 1..Len(e.keys) : e.keys[i].tag = "Constant"
    /\ \A i \in 1..Len(e.values) : e.values[i].tag = "Constant"

WellWritten(d) ==
    /\ IF d.name = <<>> THEN d.form = "named" ELSE IsStrLiteral(d.name[1])
    /\ d.action = <<>> \/ IsStrLiteral(d.action[1])
    /\ d.params = <<>> \/ IsLiteralDict(d.params[1])

\* (texts that assign a node alias apart from its add_node are dealt with
\* under C26)
WellFormed(src) ==
    /\ Len(src.builders) = 1
    /\ \A i \in 1..Len(src.stmts) : src.stmts[i].k \in {"node", "edge", "other"}
    /\ \A i \in 1..Len(NodeCalls(src)) : WellWritten(NodeCalls(src)[i])
    /\ DistinctNames(src)
    /\ \A e \in DeclaredEdges(src) :
            e[1] \in DeclaredNames(src) /\ e[2] \in DeclaredNames(src)

(***************************************************************************)
(* C14: from a well-formed text extraction gives a graph whose nodes are   *)
(* exactly the declared names (one node for each, in the order of the      *)
(* declarations) and whose edges are exactly the edges the text asks for.  *)
(***************************************************************************)
C14_ExtractsExactly ==
    (extracted # <<>> /\ WellFormed(source_text)) =>
        /\ Returned.raised = NoException
        /\ Len(Returned.dag.nodes) = Cardinality(DeclaredNames(source_text))
        /\ NamesOf(Returned.dag.nodes) =
                [i \in 1..Len(NodeCalls(source_text)) |->
                    DeclaredName(NodeCalls(source_text)[i])]
        /\ DOMAIN Returned.dag.edges = DeclaredNames(source_text)
        /\ EdgePairs(Returned.dag.edges) = DeclaredEdges(source_text)

\* three nodes and an edge were extracted from a well-formed text
C14_Witness ==
    /\ extracted # <<>>
    /\ WellFormed(source_text)
    /\ Cardinality(DeclaredNames(source_text)) = 3
    /\ DeclaredEdges(source_text) # {}
    /\ Len(Returned.dag.nodes) = 3
    /\ EdgePairs(Returned.dag.edges) = DeclaredEdges(source_text)

(***************************************************************************)
(* C15: in a well-formed text a declaration without action gives a node    *)
(* whose action is its name, whether the node is constructed inside        *)
(* add_node or assigned to a variable first; a declaration with an action  *)
(* keeps it; a declaration without params gives an empty mapping, one with *)
(* params keeps them.                                                      *)
(***************************************************************************)
\* the entries of a mapping literal
LiteralItems(e) == [j \in 1..Len(e.keys) |-> <<e.keys[j].value, e.values[j].value>>]

C15_ActionDefaultsToName ==
    (extracted # <<>> /\ WellFormed(source_text)) =>
        /\ Returned.raised = NoException
        /\ Len(Returned.dag.nodes) = Len(NodeCalls(source_text))
        /\ \A i \in 1..Len(NodeCalls(source_text)) :
                LET d == NodeCalls(source_text)[i]
                    n == Returned.dag.nodes[i]
                IN  /\ n.name = DeclaredName(d)
                    /\ n.action = IF d.action = <<>>
                                  THEN DeclaredName(d)
                                  ELSE d.action[1].value.s
                    /\ n.params = IF d.params = <<>>
                                  THEN EmptyParams
                                  ELSE LiteralItems(d.params[1])

\* two declarations without action, one inside add_node and one through a
\* variable, gave two nodes whose action is their name
C15_Witness ==
    /\ extracted # <<>>
    /\ WellFormed(source_text)
    /\ Len(source_text.stmts) = 2
    /\ \A i \in 1..2 : source_text.stmts[i].k = "node"
    /\ source_text.stmts[1].form = "positional"
    /\ source_text.stmts[2].form = "named"
    /\ source_text.stmts[2].name # <<>>
    /\ \A i \in 1..2 : source_text.stmts[i].action = <<>>
    /\ Len(Returned.dag.nodes) = 2
    /\ \A i \in 1..2 : Returned.dag.nodes[i].action = Returned.dag.nodes[i].name
    /\ Returned.dag.nodes[2].params = EmptyParams

(***************************************************************************)
(* C16: an unquoted identifier written where a literal is expected in a    *)
(* node declaration (for name, for action, or for a value inside params)   *)
(* is accepted and read as the string of its own spelling; extraction does *)
(* not fail on it.                                                         *)
(***************************************************************************)
IsIdentifier(e) == e.tag = "Name"

\* what the expression stands for when an identifier reads as its spelling
Coerced(e) == IF IsIdentifier(e) THEN PyStr(e.id) ELSE e.value

\* a declaration written with literals and unquoted identifiers only
LooselyWritten(d) ==
    /\ IF d.name = <<>> THEN d.form = "named"
       ELSE IsStrLiteral(d.name[1]) \/ IsIdentifier(d.name[1])
    /\ d.action = <<>> \/ IsStrLiteral(d.action[1]) \/ IsIdentifier(d.action[1])
    /\ \/ d.params = <<>>
       \/ /\ d.params[1].tag = "Dict"
          /\ \A j \in 1..Len(d.params[1].keys) : d.params[1].keys[j].tag = "Constant"
          /\ \A j \in 1..Len(d.params[1].values) :
                d.params[1].values[j].tag \in {"Constant", "Name"}

C16_BareIdentifierCoerced ==
    (/\ extracted # <<>>
     /\ source_text \in FormTexts
     /\ Len(source_text.stmts) = 1
     /\ LooselyWritten(source_text.stmts[1])) =>
        LET d == source_text.stmts[1]
            name == IF d.name = <<>> THEN d.target ELSE Coerced(d.name[1]).s
        IN  /\ Returned.raised = NoException
            /\ Len(Returned.dag.nodes) = 1
            /\ Returned.dag.nodes[1].name = name
            /\ Returned.dag.nodes[1].action =
                    IF d.action = <<>> THEN name ELSE Coerced(d.action[1]).s
            /\ Returned.dag.nodes[1].params =
                    IF d.params = <<>> THEN EmptyParams
                    ELSE [j \in 1..Len(d.params[1].keys) |->
                            <<d.params[1].keys[j].value, Coerced(d.params[1].values[j])>>]

(***************************************************************************)
(* C17: extraction is all or nothing.  A text (with a builder) in which a  *)
(* name is declared twice fails with the duplicate-node error for the      *)
(* first name declared again; a text without duplicates in which an edge   *)
(* names an undeclared endpoint fails with the unknown-node error; in      *)
(* both cases no graph comes back, however many of the other calls are     *)
(* valid.                                                                   *)
(***************************************************************************)
\* the name of the first declaration that repeats an earlier one
FirstDuplicate(src) ==
    LET calls_ == NodeCalls(src)
        i == CHOOSE i \in 1..Len(calls_) :
                /\ \E j \in 1..(i - 1) : DeclaredName(calls_[j]) = DeclaredName(calls_[i])
                /\ \A k \in 1..(i - 1) :
                        \A j \in 1..(k - 1) : DeclaredName(calls_[j]) # DeclaredName(calls_[k])
    IN  DeclaredName(calls_[i])

DanglingEdges(src) ==
    {e \in DeclaredEdges(src) :
        e[1] \notin DeclaredNames(src) \/ e[2] \notin DeclaredNames(src)}

C17_AllOrNothing ==
    (/\ extracted # <<>>
     /\ source_text \in PoolTexts
     /\ source_text.builders # <<>>
     /\ (~DistinctNames(source_text) \/ DanglingEdges(source_text) # {})) =>
        /\ Returned.raised = IF ~DistinctNames(source_text)
                              THEN DuplicateError(FirstDuplicate(source_text))
                              ELSE UnknownNodeError
        /\ Returned.dag = NewDAG

\* a text of two declarations, a valid edge and a last edge to an
\* undeclared name failed as a whole
C17_Witness ==
    /\ extracted # <<>>
    /\ source_text \in PoolTexts
    /\ Len(source_text.stmts) = 4
    /\ DistinctNames(source_text)
    /\ Cardinality(DeclaredNames(source_text)) = 2
    /\ Cardinality(DeclaredEdges(source_text)) = 2
    /\ Cardinality(DanglingEdges(source_text)) = 1
    /\ source_text.stmts[4].k = "edge"
    /\ <<source_text.stmts[4].s, source_text.stmts[4].t>> \in DanglingEdges(source_text)
    /\ Returned.raised = UnknownNodeError
    /\ Returned.dag = NewDAG

(***************************************************************************)
(* C18: every node of a graph has a non-empty name and a non-empty action, *)
(* in the graph the callers build with add_node and in every graph that    *)
(* extraction returns.                                                     *)
(***************************************************************************)
NamedAndActing(ns) ==
    \A i \in 1..Len(ns) : ns[i].name # "" /\ ns[i].action # ""

C18_NameAndActionNonEmpty ==
    /\ NamedAndActing(nodes)
    /\ (extracted # <<>> /\ Returned.raised = NoException) =>
            NamedAndActing(Returned.dag.nodes)

(***************************************************************************)
(* C19: every failure carries a kind that tells its cause, and the kind is *)
(* still there in the result the validation loop hands back.  The cause of *)
(* a failing source is read off the source; the kind a failure carries is  *)
(* the class of the exception raised, and what a result carries besides    *)
(* the source and the human-readable diagnostic is its other fields.  Two  *)
(* attempts of a session that failed for different causes must then differ *)
(* in the exception class and in those other fields of their results.      *)
(***************************************************************************)
Cause(code) ==
    CASE code \in {SrcSyntaxError, SrcUnclosed} -> "syntax"
      [] code = SrcNoBuilder   -> "missing builder"
      [] code = SrcDuplicate   -> "duplicate node"
      [] code = SrcUnknownEdge -> "unknown node"
      [] code = SrcNotANode    -> "call shape"
      [] code = SrcNonLiteral  -> "non-literal value"
      [] OTHER                 -> "none"

\* the exception that ended the validation of a source
Failure(code) ==
    IF code.compile # NoException THEN code.compile ELSE Extracted(code).raised

\* a result without its source and its diagnostic text
KindFields(res) == [query |-> res.query, compiled |-> res.compiled, dag |-> res.dag]

C19_FailureKindsDistinct ==
    \A i, j \in 1..Len(attempts) :
        (/\ ~attempts[i].compiled
         /\ ~attempts[j].compiled
         /\ Cause(calls[i].returned) # "none"
         /\ Cause(calls[j].returned) # "none"
         /\ Cause(calls[i].returned) # Cause(calls[j].returned)) =>
            /\ Failure(calls[i].returned).type # Failure(calls[j].returned).type
            /\ KindFields(attempts[i]) # KindFields(attempts[j])

(***************************************************************************)
(* C20: the builder aliases of a text are tracked apart.  When a text      *)
(* constructs two builders and the calls made through each of them are     *)
(* well formed on their own, extraction does not fail: a name declared     *)
(* once through each alias is no duplicate, and an edge through one alias  *)
(* is not judged by the nodes of the other.                                *)
(***************************************************************************)
CallsThrough(src, alias) ==
    Text(<<alias>>, SelectSeq(src.stmts, LAMBDA d : d.alias = alias))

C20_AliasesIndependent ==
    (/\ extracted # <<>>
     /\ source_text \in PoolTexts
     /\ Len(source_text.builders) = 2
     /\ \A b \in Range(source_text.builders) :
            WellFormed(CallsThrough(source_text, b))) =>
        Returned.raised = NoException

(***************************************************************************)
(* C21: extraction runs no part of the text.  Statements that are no       *)
(* builder calls, whatever they would do if run, leave no trace: the       *)
(* outcome is that of the text without them.  A call written where a       *)
(* field's value is expected is not called to get the value: extraction    *)
(* fails on it and returns no graph.                                       *)
(***************************************************************************)
WithoutOthers(src) ==
    Text(src.builders, SelectSeq(src.stmts, LAMBDA d : d.k # "other"))

NonLiteralName == ValueError("Unable to evaluate node name from workflow code")

C21_NothingIsRun ==
    (extracted # <<>> /\ source_text \in EffectTexts) =>
        /\ SameOutcome(Returned,
                       parse_workflow_code(Body(WithoutOthers(source_text)), <<>>))
        /\ (InputName \in Range(source_text.stmts)) =>
                /\ Returned.raised \in {NonLiteralName} \cup {DuplicateError(n) : n \in Names}
                /\ Returned.dag = NewDAG

\* two nodes and an edge were extracted from a text that also removes a
\* file
C21_Witness ==
    /\ extracted # <<>>
    /\ source_text \in EffectTexts
    /\ Len(source_text.stmts) = 4
    /\ source_text.stmts[2] = RemoveFile
    /\ Returned.raised = NoException
    /\ Len(Returned.dag.nodes) = 2
    /\ EdgePairs(Returned.dag.edges) # {}

(***************************************************************************)
(* C22: after any sequence of add_node and add_edge calls, failing ones    *)
(* included, on a graph that was empty at first, the keys of the adjacency *)
(* mapping are exactly the node names and every member of every successor  *)
(* set is the name of a node.                                              *)
(***************************************************************************)
C22_NoDanglingEndpoint ==
    /\ DOMAIN edges = Keys(nodes)
    /\ \A s \in DOMAIN edges : Range(edges[s]) \subseteq Keys(nodes)

\* an add_edge naming a node that is not there has just failed on a graph
\* of two nodes that holds edges
C22_Witness ==
    /\ last.op = "add_edge"
    /\ last.raised = UnknownNodeError
    /\ last.arg[1] \in Keys(nodes)
    /\ Len(nodes) = 2
    /\ EdgeCount(edges) >= 2

(***************************************************************************)
(* C23: acyclicity is checked only when an ordering is computed.  An       *)
(* add_edge between two nodes of the graph succeeds and stores the edge,    *)
(* also when the edge closes a cycle or is a self-loop; the cycle error is  *)
(* raised by topological_order() and execute() only; and a text whose edges *)
(* form a cycle is extracted, cycle and all, and passes validation.         *)
(***************************************************************************)
C23_CycleFoundOnlyByOrdering ==
    /\ (/\ last.op = "add_edge"
        /\ last.arg[1] \in Keys(nodes)
        /\ last.arg[2] \in Keys(nodes)) =>
            /\ last.raised = NoException
            /\ <<last.arg[1], last.arg[2]>> \in EdgePairs(edges)
    /\ last.raised = CycleError => last.op \in {"topological_order", "execute"}
    /\ Valid(SrcCycle)
    /\ Cyclic(Extracted(SrcCycle).dag.edges)

\* the edge just added is a self-loop, the first cycle of the graph
C23_Witness ==
    /\ last.op = "add_edge"
    /\ last.changed
    /\ last.arg[1] = last.arg[2]
    /\ last.raised = NoException
    /\ EdgeCount(edges) = 3
    /\ Cyclic(edges)
    /\ ~Cyclic([k \in DOMAIN edges |->
                 SelectSeq(edges[k], LAMBDA t : <<k, t>> # <<last.arg[1], last.arg[2]>>)])

(***************************************************************************)
(* C24: the queries are pure.  topological_order() and to_dot() leave the  *)
(* node mapping and every successor set as they were, whether they return  *)
(* or raise, and a query called again on the graph its last call saw       *)
(* returns, or raises, the same.                                           *)
(***************************************************************************)
Queries == {"topological_order", "to_dot"}

C24_QueryStep ==
    /\ last'.op \in Queries =>
            /\ nodes' = nodes
            /\ edges' = edges
            /\ ~last'.changed
    /\ (last.op \in Queries /\ last'.op = last.op) =>
            /\ last'.ret = last.ret
            /\ last'.raised = last.raised

Exhausted == pc = "done" /\ ~result.compiled

C25_SessionTerminates ==
    /\ <>(pc = "done")
    /\ [](Exhausted =>
            /\ attempts # <<>>
            /\ result = attempts[Len(attempts)]
            /\ ~Valid(calls[Len(calls)].returned))

\* a session given three attempts has returned after three sources that
\* all failed validation
C25_Witness ==
    /\ Exhausted
    /\ max_attempts = 3
    /\ Len(attempts) = 3
    /\ \A i \in 1..3 : ~Valid(calls[i].returned)

(***************************************************************************)
(* C26: add_node(<node alias>) is resolved against the alias table of the  *)
(* whole text.  Every add_node of an alias inserts the node of the last    *)
(* assignment of that alias in the text, wherever that assignment stands,  *)
(* before the add_node or after it; an alias that is assigned nowhere      *)
(* fails the extraction, and so does an add_node whose node bears a name   *)
(* an earlier add_node has inserted.                                       *)
(***************************************************************************)
Binds(src, target) ==
    SelectSeq(src.stmts, LAMBDA d : d.k = "bind" /\ d.target = target)

Uses(src) == SelectSeq(src.stmts, LAMBDA d : d.k = "use")

\* the node the last assignment of the alias constructs
LastNode(src, target) ==
    LET d    == Binds(src, target)[Len(Binds(src, target))]
        name == DeclaredName(d)
    IN  WorkflowNode(name,
                     IF d.action # <<>> THEN d.action[1].value.s ELSE name,
                     EmptyParams)

\* the i-th add_node of the text cannot be done
BadUse(src, i) ==
    \/ Binds(src, Uses(src)[i].target) = <<>>
    \/ \E j \in 1..(i - 1) :
            /\ Binds(src, Uses(src)[j].target) # <<>>
            /\ LastNode(src, Uses(src)[j].target).name
                    = LastNode(src, Uses(src)[i].target).name

NotANodeError ==
    ValueError("add_node expects a WorkflowNode constructor call or named instance")

C26_AliasResolvedOverWholeText ==
    (extracted # <<>> /\ source_text \in AliasTexts) =>
        LET src == source_text
            n   == Len(Uses(src))
            bad == {i \in 1..n : BadUse(src, i)}
        IN  IF bad = {}
            THEN /\ Returned.raised = NoException
                 /\ Returned.dag.nodes
                        = [i \in 1..n |-> LastNode(src, Uses(src)[i].target)]
                 /\ EdgePairs(Returned.dag.edges) = {}
            ELSE LET i == CHOOSE x \in bad : \A y \in bad : x <= y
                 IN  /\ Returned.dag = NewDAG
                     /\ Returned.raised =
                            IF Binds(src, Uses(src)[i].target) = <<>>
                            THEN NotANodeError
                            ELSE DuplicateError(LastNode(src, Uses(src)[i].target).name)

\* dag.add_node(first) stands before both assignments of first, and the
\* graph holds the node of the second one
C26_Witness ==
    /\ extracted # <<>>
    /\ source_text \in AliasTexts
    /\ Len(source_text.stmts) = 3
    /\ source_text.stmts[1] = Use("dag", "first")
    /\ source_text.stmts[2].k = "bind"
    /\ source_text.stmts[3].k = "bind"
    /\ source_text.stmts[2].target = "first"
    /\ source_text.stmts[3].target = "first"
    /\ source_text.stmts[2] # source_text.stmts[3]
    /\ Returned.raised = NoException
    /\ Returned.dag.nodes = <<LastNode(source_text, "first")>>
    /\ Returned.dag.nodes[1].name = DeclaredName(source_text.stmts[3])

====
